---- MODULE Spec2Model ----
(***************************************************************************)
(* Model of pe32solaredge_scrape.py: the cookie-seeded fetcher with its    *)
(* single retry, the response cache file, the parser, the freshness        *)
(* policy and the three entry points (print, insert, publish loop).        *)
(*                                                                         *)
(* A text (HTTP body, file content) is a sequence of characters.  Every    *)
(* element is a string; the JSON keys of the payload are kept as one       *)
(* element each ("currentPower" is the marker substring the fetcher looks  *)
(* for), everything else is one character per element.  The two nested     *)
(* fieldOverview levels of the payload are flattened into one object.      *)
(***************************************************************************)
EXTENDS Integers, Sequences, FiniteSets, TLC

(***************************************************************************)
(* Text helpers: str.lstrip, the "in" substring test, json.loads.          *)
(***************************************************************************)
IsSpace(c) == c \in {" ", "\n", "\t", "\r"}

RECURSIVE LStrip(_)
LStrip(t) ==
    IF t = <<>> THEN <<>>
    ELSE IF IsSpace(Head(t)) THEN LStrip(Tail(t))
    ELSE t

\* 'currentPower' in text
Contains(t, tok) == \E i \in 1..Len(t) : t[i] = tok

Keys == {"lastUpdateTime", "lifeTimeData", "lastDayData", "currentPower", "unit"}

Digits == {"0", "1", "2", "3", "4", "5", "6", "7", "8", "9"}

DigitVal(c) ==
    CASE c = "0" -> 0 [] c = "1" -> 1 [] c = "2" -> 2 [] c = "3" -> 3
      [] c = "4" -> 4 [] c = "5" -> 5 [] c = "6" -> 6 [] c = "7" -> 7
      [] c = "8" -> 8 [] c = "9" -> 9

\* Length of the longest prefix of t made of digits.
RECURSIVE DigitRun(_)
DigitRun(t) ==
    IF t = <<>> \/ Head(t) \notin Digits THEN 0 ELSE 1 + DigitRun(Tail(t))

\* Index of the first occurrence of c in t, 0 when there is none.
RECURSIVE IndexOf(_, _)
IndexOf(t, c) ==
    IF t = <<>> THEN 0
    ELSE IF Head(t) = c THEN 1
    ELSE LET r == IndexOf(Tail(t), c) IN IF r = 0 THEN 0 ELSE r + 1

RECURSIVE DigitsToNat(_, _)
DigitsToNat(t, acc) ==
    IF t = <<>> THEN acc ELSE DigitsToNat(Tail(t), 10 * acc + DigitVal(Head(t)))

StrVal(s) == [kind |-> "str", s |-> s, n |-> 0]
NumVal(n) == [kind |-> "num", s |-> <<>>, n |-> n]

JsonInvalid == [ok |-> FALSE, obj |-> <<>>]

\* The members of a JSON object after its opening brace: key, then a quoted
\* string or a number, up to the closing brace; only whitespace may follow.
RECURSIVE JsonMembers(_, _)
JsonMembers(t, acc) ==
    IF t = <<>> THEN JsonInvalid
    ELSE IF Head(t) = "}"
    THEN IF LStrip(Tail(t)) = <<>> THEN [ok |-> TRUE, obj |-> acc] ELSE JsonInvalid
    ELSE IF Head(t) \notin Keys \/ Len(t) < 2 THEN JsonInvalid
    ELSE LET k == Head(t)
             r == Tail(t)
         IN  IF Head(r) = "\""
             THEN LET q == IndexOf(Tail(r), "\"")
                  IN  IF q = 0 THEN JsonInvalid
                      ELSE JsonMembers(SubSeq(r, q + 2, Len(r)),
                                       Append(acc, <<k, StrVal(SubSeq(r, 2, q))>>))
             ELSE LET d == DigitRun(r)
                  IN  IF d = 0 THEN JsonInvalid
                      ELSE JsonMembers(SubSeq(r, d + 1, Len(r)),
                                       Append(acc, <<k, NumVal(DigitsToNat(SubSeq(r, 1, d), 0))>>))

\* json.loads(text), for the object shapes the payload has.
JsonLoads(t) ==
    LET s == LStrip(t)
    IN  IF s = <<>> \/ Head(s) # "{" THEN JsonInvalid ELSE JsonMembers(Tail(s), <<>>)

HasKey(obj, k) == \E i \in 1..Len(obj) : obj[i][1] = k

\* obj[k]: the last member with that key, as in a Python dict.
Lookup(obj, k) ==
    LET i == CHOOSE j \in 1..Len(obj) :
                 obj[j][1] = k /\ \A m \in (j + 1)..Len(obj) : obj[m][1] # k
    IN  obj[i][2]

(***************************************************************************)
(* Calendar arithmetic behind datetime.strptime, pytz/dateutil             *)
(* Europe/Amsterdam and datetime.timestamp.  An aware UTC datetime is      *)
(* represented by its instant, in seconds since 1970-01-01T00:00:00Z.      *)
(***************************************************************************)
IsLeap(y) == (y % 4 = 0 /\ y % 100 # 0) \/ y % 400 = 0

DaysInMonth(y, m) ==
    IF m = 2 THEN (IF IsLeap(y) THEN 29 ELSE 28)
    ELSE IF m \in {4, 6, 9, 11} THEN 30 ELSE 31

\* Days from 1970-01-01 to the civil date y-m-d (proleptic Gregorian).
DaysFromCivil(y, m, d) ==
    LET yy  == IF m <= 2 THEN y - 1 ELSE y
        era == yy \div 400
        yoe == yy - era * 400
        mp  == IF m > 2 THEN m - 3 ELSE m + 9
        doy == (153 * mp + 2) \div 5 + d - 1
        doe == yoe * 365 + yoe \div 4 - yoe \div 100 + doy
    IN  era * 146097 + doe - 719468

\* The civil date of a day number, the inverse of DaysFromCivil.
CivilFromDays(z) ==
    LET zz  == z + 719468
        era == zz \div 146097
        doe == zz - era * 146097
        yoe == (doe - doe \div 1460 + doe \div 36524 - doe \div 146096) \div 365
        doy == doe - (365 * yoe + yoe \div 4 - yoe \div 100)
        mp  == (5 * doy + 2) \div 153
        d   == doy - (153 * mp + 2) \div 5 + 1
        m   == IF mp < 10 THEN mp + 3 ELSE mp - 9
        y   == yoe + era * 400 + (IF m <= 2 THEN 1 ELSE 0)
    IN  [Y |-> y, M |-> m, D |-> d]

\* Seconds of a naive datetime, counted as if its fields were UTC.
NaiveSeconds(dt) ==
    DaysFromCivil(dt.Y, dt.M, dt.D) * 86400 + dt.h * 3600 + dt.mi * 60 + dt.s

\* Day of the month of the last Sunday of a 31-day month (0 = Sunday).
LastSunday(y, m) ==
    LET wd == (DaysFromCivil(y, m, 31) + 4) % 7 IN 31 - wd

\* Europe/Amsterdam wall-clock transitions of year y, as naive seconds:
\* at 02:00 on the last Sunday of March the clock jumps to 03:00, at 03:00
\* on the last Sunday of October it falls back to 02:00.
SpringGapStart(y) == DaysFromCivil(y, 3, LastSunday(y, 3)) * 86400 + 2 * 3600
FallFoldStart(y)  == DaysFromCivil(y, 10, LastSunday(y, 10)) * 86400 + 2 * 3600

IsNonExistent(dt) ==
    LET l == NaiveSeconds(dt)
    IN  l >= SpringGapStart(dt.Y) /\ l < SpringGapStart(dt.Y) + 3600

IsAmbiguous(dt) ==
    LET l == NaiveSeconds(dt)
    IN  l >= FallFoldStart(dt.Y) /\ l < FallFoldStart(dt.Y) + 3600

\* Unambiguous summer time.
IsSummer(dt) ==
    LET l == NaiveSeconds(dt)
    IN  l >= SpringGapStart(dt.Y) + 3600 /\ l < FallFoldStart(dt.Y)

\* The library the import of lines 55-86 found.  It is fixed for a process;
\* the actions choose it at every parse, which allows every behaviour of
\* either installation.
TzLibs == {"pytz", "arrow"}

\* dt_naive_to_local: the naive datetime with its UTC offset, or the error
\* the timezone library raises.  pytz' localize(is_dst=None) raises for a
\* wall time that does not exist and for one that occurs twice; only the
\* latter is caught and resolved with is_dst=False.  dateutil (used through
\* arrow) raises for neither: it takes the first occurrence of a repeated
\* wall time (summer time) and the offset after the jump for a skipped one.
dt_naive_to_local(lib, dt) ==
    IF lib = "pytz"
    THEN IF IsNonExistent(dt) THEN [err |-> "NonExistentTimeError", naive |-> dt, offset |-> 0]
         ELSE IF IsAmbiguous(dt) THEN [err |-> "", naive |-> dt, offset |-> 3600]
         ELSE [err |-> "", naive |-> dt, offset |-> IF IsSummer(dt) THEN 7200 ELSE 3600]
    ELSE [err |-> "", naive |-> dt,
          offset |-> IF IsSummer(dt) \/ IsAmbiguous(dt) \/ IsNonExistent(dt)
                     THEN 7200 ELSE 3600]

\* dt_local_to_utc: the instant of a local datetime.
dt_local_to_utc(local) == NaiveSeconds(local.naive) - local.offset

\* dt_unixtime of a UTC datetime.
dt_unixtime(utc) == utc

\* utc_dt.strftime('%Y-%m-%d %H:%M:%S'): the fields of the UTC datetime.
Strftime(utc) ==
    LET c   == CivilFromDays(utc \div 86400)
        sod == utc % 86400
    IN  [Y |-> c.Y, M |-> c.M, D |-> c.D,
         h |-> sod \div 3600, mi |-> (sod % 3600) \div 60, s |-> sod % 60]

\* s.split('.', 1)[0]
SplitDot(s) ==
    LET i == IndexOf(s, ".") IN IF i = 0 THEN s ELSE SubSeq(s, 1, i - 1)

AllDigits(s) == \A i \in 1..Len(s) : s[i] \in Digits

\* datetime.strptime(s, '%Y-%m-%d %H:%M:%S') for a 19-character s, in the
\* zero-padded layout; ok is FALSE where strptime raises ValueError.
Strptime(s) ==
    LET num(a, b) == DigitsToNat(SubSeq(s, a, b), 0)
        shape == /\ Len(s) = 19
                 /\ s[5] = "-" /\ s[8] = "-" /\ s[11] = " "
                 /\ s[14] = ":" /\ s[17] = ":"
                 /\ AllDigits(SubSeq(s, 1, 4)) /\ AllDigits(SubSeq(s, 6, 7))
                 /\ AllDigits(SubSeq(s, 9, 10)) /\ AllDigits(SubSeq(s, 12, 13))
                 /\ AllDigits(SubSeq(s, 15, 16)) /\ AllDigits(SubSeq(s, 18, 19))
    IN  IF ~shape THEN [ok |-> FALSE, Y |-> 0, M |-> 0, D |-> 0, h |-> 0, mi |-> 0, s |-> 0]
        ELSE LET dt == [ok |-> TRUE, Y |-> num(1, 4), M |-> num(6, 7), D |-> num(9, 10),
                        h |-> num(12, 13), mi |-> num(15, 16), s |-> num(18, 19)]
             IN  IF /\ dt.Y >= 1 /\ dt.M \in 1..12
                    /\ dt.D >= 1 /\ dt.D <= DaysInMonth(dt.Y, dt.M)
                    /\ dt.h <= 23 /\ dt.mi <= 59 /\ dt.s <= 61
                 THEN dt
                 ELSE [dt EXCEPT !.ok = FALSE]

(***************************************************************************)
(* parse_api_v3_js                                                         *)
(***************************************************************************)
\* Variant: the unit is not looked at.
UnitAccepted_Any(u) == TRUE

\* Line 227: assert fo['currentPower']['unit'] == 'W'
UnitAccepted(u) == u = StrVal(<<"W">>)

ParseError(e) ==
    [err |-> e, lastUpdateTime |-> 0, lifeTimeEnergy |-> NumVal(0),
     lastDayEnergy |-> NumVal(0), currentPower |-> NumVal(0)]

parse_api_v3_js(lib, text) ==
    LET js == JsonLoads(text)
        fo == js.obj
    IN  IF ~js.ok THEN ParseError("JSONDecodeError")
        ELSE IF ~HasKey(fo, "lastUpdateTime") THEN ParseError("KeyError")
        ELSE IF Lookup(fo, "lastUpdateTime").kind # "str" THEN ParseError("AttributeError")
        ELSE LET ts == SplitDot(Lookup(fo, "lastUpdateTime").s)
             IN  IF Len(ts) # 19 THEN ParseError("AssertionError")
                 ELSE IF ~Strptime(ts).ok THEN ParseError("ValueError")
                 ELSE LET local_dt == dt_naive_to_local(lib, Strptime(ts))
                      IN  IF local_dt.err # "" THEN ParseError(local_dt.err)
                          ELSE IF \/ ~HasKey(fo, "lifeTimeData")
                                  \/ ~HasKey(fo, "lastDayData")
                                  \/ ~HasKey(fo, "currentPower")
                                  \/ ~HasKey(fo, "unit")
                               THEN ParseError("KeyError")
                          ELSE IF ~UnitAccepted(Lookup(fo, "unit"))
                               THEN ParseError("AssertionError")
                          ELSE [err |-> "",
                                lastUpdateTime |-> dt_local_to_utc(local_dt),
                                lifeTimeEnergy |-> Lookup(fo, "lifeTimeData"),
                                lastDayEnergy |-> Lookup(fo, "lastDayData"),
                                currentPower |-> Lookup(fo, "currentPower")]

\* Variant: the power compared with the string '0'.
IsZero_String(v) == v.kind = "str" /\ v.s = <<"0">>

\* parsed['currentPower'] == 0
IsZero(v) == v.kind = "num" /\ v.n = 0

(***************************************************************************)
(* The texts of the model: what the vendor's endpoint may answer and what  *)
(* the cache file may hold when the program starts.                        *)
(***************************************************************************)
Payload(ts, life, day, power, unit) ==
    <<"{", "lastUpdateTime", "\"">> \o ts \o <<"\"", "lifeTimeData">> \o life
        \o <<"lastDayData">> \o day \o <<"currentPower">> \o power
        \o <<"unit", "\"">> \o unit \o <<"\"", "}">>

\* "2022-02-06 14:33:00.0"
TsDay == <<"2", "0", "2", "2", "-", "0", "2", "-", "0", "6", " ",
           "1", "4", ":", "3", "3", ":", "0", "0", ".", "0">>
\* "2022-07-06 23:50:00.0"
TsNight == <<"2", "0", "2", "2", "-", "0", "7", "-", "0", "6", " ",
             "2", "3", ":", "5", "0", ":", "0", "0", ".", "0">>

BodyDay    == Payload(TsDay, <<"4", "3", "5", "2">>, <<"1", "4", "4", "6">>, <<"3", "0", "6">>, <<"W">>)
BodyNight  == Payload(TsNight, <<"4", "3", "6", "0">>, <<"8", "0", "0", "0">>, <<"0">>, <<"W">>)
BodyKw     == Payload(TsDay, <<"4", "3", "5", "2">>, <<"1", "4", "4", "6">>, <<"0">>, <<"k", "W">>)
\* A payload cut off after its first key, and one with month 13.
BodyCut    == <<"{", "lastUpdateTime">>
BodyBadTs  == Payload([TsDay EXCEPT ![6] = "1", ![7] = "3"], <<"4", "3", "5", "2">>,
                      <<"1", "4", "4", "6">>, <<"0">>, <<"W">>)
BodyLogin  == <<"<", "h", "t", "m", "l", ">">>
BodyNoData == <<"{", "}">>
BodyEmpty  == <<>>
BodyBlank  == <<" ">>
BodyLead   == <<" ">> \o BodyNight

ServerBodies == {BodyDay, BodyNight, BodyLogin, BodyEmpty}
CacheBodies  ==
    ServerBodies \cup {BodyKw, BodyNoData, BodyCut, BodyBadTs, BodyBlank, BodyLead}

Statuses == {200, 500}

ConfCookies == {<<"SSO", "conf">>}
ServerCookies == {{}, {<<"JSESSIONID", "s1">>}}
JarContents == {{}, {<<"SSO", "old">>}}

\* What the endpoint may answer; only an answer with status 200 sets cookies.
Responses ==
    {r \in [status : Statuses, text : ServerBodies, setCookies : ServerCookies] :
        r.status # 200 => r.setCookies = {}}

NoResp == [status |-> 0, text |-> <<>>, setCookies |-> {}]

\* The session's cookies after a response: Set-Cookie replaces by name.
Merge(jar, set) ==
    {c \in jar : \A d \in set : d[1] # c[1]} \cup set

NoFile == [exists |-> FALSE, text |-> <<>>, mtime |-> 0]

(***************************************************************************)
(* cookies.json, lines 170-186.  A session's cookies are held as their     *)
(* name-to-value mapping, a set of <<name, value>> pairs with one pair per *)
(* name; the file holds the JSON text json.dump writes for that mapping,   *)
(* names and values being single tokens between quotes.                    *)
(***************************************************************************)
RECURSIVE RStrip(_)
RStrip(t) ==
    IF t = <<>> THEN <<>>
    ELSE IF IsSpace(t[Len(t)]) THEN RStrip(SubSeq(t, 1, Len(t) - 1))
    ELSE t

\* "name": "value", the members separated by ", ".
RECURSIVE DumpMembers(_)
DumpMembers(d) ==
    IF d = {} THEN <<>>
    ELSE LET c == CHOOSE x \in d : TRUE
             rest == d \ {c}
         IN  <<"\"", c[1], "\"", ":", " ", "\"", c[2], "\"">>
                 \o (IF rest = {} THEN <<>> ELSE <<",", " ">> \o DumpMembers(rest))

\* Variant: only one member is written.
json_dump_OneMember(d) ==
    <<"{">> \o (IF d = {} THEN <<>> ELSE DumpMembers({CHOOSE x \in d : TRUE})) \o <<"}">>

\* Line 185: json.dump of a dict of strings.
json_dump(d) == <<"{">> \o DumpMembers(d) \o <<"}">>

JarInvalid == [err |-> "JSONDecodeError", dict |-> {}]

\* The members after the opening brace; a repeated name keeps its last value.
RECURSIVE LoadMembers(_, _)
LoadMembers(t, acc) ==
    IF /\ Len(t) >= 9
       /\ t[1] = "\"" /\ t[3] = "\"" /\ t[4] = ":" /\ t[5] = " "
       /\ t[6] = "\"" /\ t[8] = "\""
    THEN LET acc2 == {c \in acc : c[1] # t[2]} \cup {<<t[2], t[7]>>}
             rest == SubSeq(t, 9, Len(t))
         IN  IF rest = <<"}">> THEN [err |-> "", dict |-> acc2]
             ELSE IF Len(rest) >= 2 /\ rest[1] = "," /\ rest[2] = " "
             THEN LoadMembers(SubSeq(rest, 3, Len(rest)), acc2)
             ELSE JarInvalid
    ELSE JarInvalid

\* Line 174: json.load of the file's text.
json_load(t) ==
    LET u == RStrip(LStrip(t))
    IN  IF u = <<"{", "}">> THEN [err |-> "", dict |-> {}]
        ELSE IF u # <<>> /\ Head(u) = "{" THEN LoadMembers(Tail(u), {})
        ELSE JarInvalid

\* Variant: the configured cookies are written, not the session's.
store_session_Configured(cookies) ==
    [exists |-> TRUE, text |-> json_dump(ConfCookies) \o <<"\n">>]

\* store_session, lines 182-186: cookies.json rewritten with the session's
\* cookies and a newline.
store_session(cookies) ==
    [exists |-> TRUE, text |-> json_dump(cookies) \o <<"\n">>]

NoJar == [exists |-> FALSE, text |-> <<>>]
NoParsed == ParseError("none")
NoSnap == [exists |-> FALSE, inst_solar_pwr |-> NumVal(0), solar_act |-> NumVal(0),
           solar_act_day |-> NumVal(0), last_update |-> 0]
NoCall == [served |-> "", age |-> 0, text |-> <<>>, fetches |-> 0, gets |-> 0,
           before |-> NoFile]

Modes == {"main", "insert", "publish"}

(***************************************************************************)
(* The payloads handed to parse_api_v3_js on its own: the endpoint's       *)
(* rendering of a local wall-clock time, three numbers and a unit.         *)
(***************************************************************************)
DigitChar(n) == CHOOSE c \in Digits : DigitVal(c) = n

\* The decimal digits of a natural number.
RECURSIVE Decimal(_)
Decimal(n) ==
    IF n < 10 THEN <<DigitChar(n)>> ELSE Decimal(n \div 10) \o <<DigitChar(n % 10)>>

\* The digits of n, zero-padded to width w.
Pad(n, w) ==
    LET d == Decimal(n) IN [i \in 1..(w - Len(d)) |-> "0"] \o d

\* 'YYYY-MM-DD HH:MM:SS'
StampOf(dt) ==
    Pad(dt.Y, 4) \o <<"-">> \o Pad(dt.M, 2) \o <<"-">> \o Pad(dt.D, 2) \o <<" ">>
        \o Pad(dt.h, 2) \o <<":">> \o Pad(dt.mi, 2) \o <<":">> \o Pad(dt.s, 2)

\* How lastUpdateTime is written: with a fraction as the endpoint does,
\* without one, a character short, a character long, or with a '.' for the
\* first ':'.
Shapes == {"frac", "plain", "short", "long", "dotted"}

StampText(p) ==
    LET st == StampOf(p.dt)
    IN  CASE p.shape = "frac"   -> st \o <<".", "0">>
          [] p.shape = "plain"  -> st
          [] p.shape = "short"  -> SubSeq(st, 1, 18) \o <<".", "0">>
          [] p.shape = "long"   -> st \o <<"0", ".", "0">>
          [] p.shape = "dotted" -> [st EXCEPT ![14] = "."]

PayloadText(p) ==
    Payload(StampText(p), Decimal(p.life), Decimal(p.day), Decimal(p.power), p.unit)

\* Days around the Europe/Amsterdam clock changes of 2022 and 2024, a winter
\* day, a summer day and a leap day.
ParserDates ==
    {[Y |-> 2022, M |-> 2, D |-> 6], [Y |-> 2022, M |-> 7, D |-> 6],
     [Y |-> 2022, M |-> 3, D |-> 27], [Y |-> 2022, M |-> 10, D |-> 30],
     [Y |-> 2024, M |-> 2, D |-> 29], [Y |-> 2024, M |-> 3, D |-> 31],
     [Y |-> 2024, M |-> 10, D |-> 27]}

ParserTimes ==
    {[h |-> 1, mi |-> 59, s |-> 59], [h |-> 2, mi |-> 0, s |-> 0],
     [h |-> 2, mi |-> 30, s |-> 0], [h |-> 2, mi |-> 59, s |-> 59],
     [h |-> 3, mi |-> 0, s |-> 0], [h |-> 14, mi |-> 33, s |-> 0]}

ParserStamps ==
    {[Y |-> d.Y, M |-> d.M, D |-> d.D, h |-> t.h, mi |-> t.mi, s |-> t.s] :
        d \in ParserDates, t \in ParserTimes}

ParserUnits == {<<"W">>, <<"k", "W">>, <<"w">>, <<>>}

ParserPayloads ==
    [dt : ParserStamps, shape : Shapes, unit : ParserUnits,
     life : {4352}, day : {0, 1446}, power : {0, 306}]

NoPayload ==
    [dt |-> [Y |-> 0, M |-> 0, D |-> 0, h |-> 0, mi |-> 0, s |-> 0],
     shape |-> "", unit |-> <<>>, life |-> 0, day |-> 0, power |-> 0]

\* Bounds of the model.
MaxNow == 1300
TickSteps == {500}

\* Program constants.
FreshLimit == 900
SleepSeconds == 400
LocationId == 15

VARIABLES
    now,          \* time.time()
    cookieJar,    \* the file cookies.json
    cacheFile,    \* the file api_v3_site.js, with its mtime
    latestJson,   \* the file latest.json
    latestNew,    \* the file latest.json.new
    db,           \* the rows of table power_kwh
    mode,         \* the entry point running, "idle" when no process runs
    pc,           \* where the process is
    stage,        \* which fetch_cached_api_v3_site call is running
    clear_cache,  \* its argument
    sess,         \* sess.cookies
    resp, resp2,  \* the locals of fetch_api_v3_site
    text, age,    \* the result of fetch_cached_api_v3_site
    parsed, fresh,\* the result of fetch_reasonably_fresh_data
    err,          \* the exception that ended the process
    \* history, read by the properties only
    resp1,        \* the first response of the running fetcher invocation
    gets,         \* the cookies each GET of that invocation carried
    served,       \* "cache" or "fetch": where the running cached call got its text
    cacheBefore,  \* the cache file when that call began
    call,         \* the running fetch_reasonably_fresh_data call: its first read
    conns, inserts,\* database connections opened, inserts attempted
    dberr,        \* what the database answered to the INSERT
    published,    \* the fresh reading whose snapshot was last renamed into place
    payload,      \* what the text handed to the parser was made from
    lastFetch     \* when the running process last completed a live fetch, -1 before

vars == <<now, cookieJar, cacheFile, latestJson, latestNew, db, mode, pc,
          stage, clear_cache, sess, resp, resp2, text, age, parsed, fresh, err,
          resp1, gets, served, cacheBefore, call, conns, inserts, dberr, published, payload, lastFetch>>

files == <<cookieJar, cacheFile, latestJson, latestNew, db>>
fetcherLocals == <<sess, resp, resp2, resp1, gets>>
results == <<text, age, parsed, fresh>>

Init ==
    /\ now = 0
    /\ cookieJar \in {NoJar} \cup {store_session(j) : j \in JarContents}
    /\ cacheFile \in {NoFile} \cup
                     {[exists |-> TRUE, text |-> b, mtime |-> 0] : b \in CacheBodies}
    /\ latestJson = NoSnap
    /\ latestNew = NoSnap
    /\ db = {}
    /\ mode = "idle"
    /\ pc = "idle"
    /\ stage = ""
    /\ clear_cache = FALSE
    /\ sess = {}
    /\ resp = NoResp
    /\ resp2 = NoResp
    /\ text = <<>>
    /\ age = 0
    /\ parsed = NoParsed
    /\ fresh = FALSE
    /\ err = ""
    /\ resp1 = NoResp
    /\ gets = <<>>
    /\ served = ""
    /\ cacheBefore = NoFile
    /\ call = NoCall
    /\ conns = 0
    /\ inserts = 0
    /\ dberr = ""
    /\ published = NoParsed
    /\ payload = NoPayload
    /\ lastFetch = -1

(***************************************************************************)
(* Entry points (lines 409-414) and the environment between invocations.   *)
(***************************************************************************)
\* Variant: main goes through fetch_reasonably_fresh_data as well.
EntryStage_Policy(m) == "first"

\* Lines 380, 328 and 355: main makes the cached call itself, the other
\* modes make it as the first call of fetch_reasonably_fresh_data.
EntryStage(m) == IF m = "main" THEN "main" ELSE "first"

Start(m) ==
    /\ pc = "idle"
    /\ mode' = m
    /\ pc' = "cached"
    /\ stage' = EntryStage(m)
    /\ clear_cache' = FALSE
    /\ UNCHANGED <<now, files, fetcherLocals, results, err,
                   served, cacheBefore, call, conns, inserts, dberr, published, payload, lastFetch>>

\* Time passes while no process runs.
Tick ==
    /\ pc = "idle"
    /\ \E d \in TickSteps :
          /\ now + d <= MaxNow
          /\ now' = now + d
    /\ UNCHANGED <<files, mode, pc, stage, clear_cache, fetcherLocals,
                   results, err, served, cacheBefore, call, conns, inserts, dberr, published, payload, lastFetch>>

\* The process has ended, normally or by an uncaught exception.
Exit ==
    /\ pc \in {"done", "failed"}
    /\ mode' = "idle"
    /\ pc' = "idle"
    /\ stage' = ""
    /\ clear_cache' = FALSE
    /\ sess' = {}
    /\ resp' = NoResp /\ resp2' = NoResp /\ resp1' = NoResp
    /\ gets' = <<>>
    /\ text' = <<>> /\ age' = 0 /\ parsed' = NoParsed /\ fresh' = FALSE
    /\ err' = ""
    /\ served' = "" /\ cacheBefore' = NoFile /\ call' = NoCall
    /\ conns' = 0 /\ inserts' = 0 /\ dberr' = ""
    /\ lastFetch' = -1
    /\ UNCHANGED <<now, files, published, payload>>

\* An uncaught exception: the traceback ends the process.
Raise(e) ==
    /\ pc' = "failed"
    /\ err' = e

(***************************************************************************)
(* fetch_cached_api_v3_site, lines 284-294: read the cache file.           *)
(***************************************************************************)
\* Variant: clear_cache is not looked at.
CacheRead_IgnoresForce(clear, file) == file.exists

\* The cache file is read: the call is not forced and the file is there.
CacheRead(clear, file) == ~clear /\ file.exists

\* Variant: the fetcher's test for the marker, applied to the cache.
BrokenCache_NoMarker(t) == ~Contains(t, "currentPower")

\* text.lstrip()[0] != '{' for a text that has such a character.
BrokenCache(t) == Head(LStrip(t)) # "{"

ReadCache ==
    /\ pc = "cached"
    /\ cacheBefore' = cacheFile
    /\ IF ~CacheRead(clear_cache, cacheFile)
       THEN \* FileNotFoundError, raised or pretended: fetch
            /\ pc' = "fetch"
            /\ served' = "fetch"
            /\ UNCHANGED <<text, age, err>>
       ELSE /\ age' = now - cacheFile.mtime
            /\ text' = cacheFile.text
            /\ IF LStrip(cacheFile.text) = <<>>
               THEN \* [0] of an empty string: IndexError, which is not caught
                    /\ Raise("IndexError")
                    /\ served' = ""
               ELSE IF BrokenCache(cacheFile.text)
               THEN \* ValueError, caught at line 295: fetch
                    /\ pc' = "fetch"
                    /\ served' = "fetch"
                    /\ err' = err
               ELSE /\ pc' = "policy"
                    /\ served' = "cache"
                    /\ err' = err
    /\ call' = IF stage # "first" THEN call
               ELSE IF served' = "cache"
               THEN [call EXCEPT !.served = "cache", !.age = age', !.text = text',
                                 !.before = cacheFile]
               ELSE [call EXCEPT !.served = served', !.before = cacheFile]
    /\ UNCHANGED <<now, files, mode, stage, clear_cache, fetcherLocals,
                   parsed, fresh, conns, inserts, dberr, published, payload, lastFetch>>

(***************************************************************************)
(* fetch_api_v3_site, lines 231-262.                                       *)
(***************************************************************************)
\* Lines 172-174: json.load raises on a file that is not JSON; only
\* FileNotFoundError is caught.
RestoreFails(file) == file.exists /\ json_load(file.text).err # ""

\* restore_session, lines 170-179: the cookies of cookies.json, none
\* without the file.
restore_session(file) == IF file.exists THEN json_load(file.text).dict ELSE {}

\* Variant: the configured cookies replace whatever was restored.
SeedSession_Always(cookies) == ConfCookies

\* Lines 234-235: a session without cookies gets the configured ones.
SeedSession(cookies) == IF cookies = {} THEN ConfCookies ELSE cookies

\* Variant: sess.cookies.clear() left out, the configured cookies added.
ReseedCookies_NoClear(cookies) == Merge(cookies, ConfCookies)

\* Lines 252-254: the stale cookies are wiped, the configured ones set.
ReseedCookies(cookies) == ConfCookies

\* The check of lines 250-251 on the first response.
FirstFails(r) == r.status # 200 \/ ~Contains(r.text, "currentPower")

\* The check of lines 257-258 on the retry: it reads resp.text, the first
\* response's body, where lines 250-251 read the body of the response checked.
RetryFails(r, r2) == r2.status # 200 \/ ~Contains(r.text, "currentPower")

\* Variant: the cache file is opened for writing before the fetch is made.
CacheWhileFetching_Opened(file, t) == [exists |-> TRUE, text |-> <<>>, mtime |-> t]

\* Lines 296-297: the cache file is opened for writing only after
\* fetch_api_v3_site has returned; while it runs the file is as it was.
CacheWhileFetching(file, t) == file

\* Lines 296 and 232-233: fetch_api_v3_site is entered, the configuration
\* is read and the session restored.
BeginFetch ==
    /\ pc = "fetch"
    /\ cacheFile' = CacheWhileFetching(cacheFile, now)
    /\ IF RestoreFails(cookieJar)
       THEN Raise("JSONDecodeError") /\ sess' = sess
       ELSE /\ sess' = restore_session(cookieJar)
            /\ pc' = "seed"
            /\ err' = err
    /\ resp' = NoResp /\ resp2' = NoResp /\ resp1' = NoResp
    /\ gets' = <<>>
    /\ call' = [call EXCEPT !.fetches = @ + 1]
    /\ UNCHANGED <<now, cookieJar, latestJson, latestNew, db, mode, stage,
                   clear_cache, results, served, cacheBefore, conns, inserts,
                   dberr, published, payload, lastFetch>>

\* Lines 234-247: the session is seeded and the headers are built.
SeedCookies ==
    /\ pc = "seed"
    /\ sess' = SeedSession(sess)
    /\ pc' = "get1"
    /\ UNCHANGED <<now, files, mode, stage, clear_cache, resp, resp2, resp1,
                   gets, results, err, served, cacheBefore, call, conns,
                   inserts, dberr, published, payload, lastFetch>>

\* Lines 249-254: the first GET; on a rejected response the cookies are
\* cleared and reseeded from the configuration.
Get1 ==
    /\ pc = "get1"
    /\ \E r \in Responses :
          /\ resp' = r
          /\ resp1' = r
          /\ gets' = Append(gets, sess)
          /\ IF FirstFails(r)
             THEN /\ sess' = ReseedCookies(Merge(sess, r.setCookies))
                  /\ pc' = "get2"
             ELSE /\ sess' = Merge(sess, r.setCookies)
                  /\ pc' = "store"
    /\ call' = [call EXCEPT !.gets = @ + 1]
    /\ UNCHANGED <<now, files, mode, stage, clear_cache, resp2, results,
                   err, served, cacheBefore, conns, inserts, dberr, published, payload, lastFetch>>

\* Lines 256-260: the retry.
Get2 ==
    /\ pc = "get2"
    /\ \E r \in Responses :
          /\ resp2' = r
          /\ gets' = Append(gets, sess)
          /\ sess' = Merge(sess, r.setCookies)
          /\ IF RetryFails(resp, r)
             THEN /\ Raise("ValueError")
                  /\ resp' = resp
             ELSE /\ resp' = r
                  /\ pc' = "store"
                  /\ err' = err
    /\ call' = [call EXCEPT !.gets = @ + 1]
    /\ UNCHANGED <<now, files, mode, stage, clear_cache, resp1, results,
                   served, cacheBefore, conns, inserts, dberr, published, payload, lastFetch>>

\* Line 261.
StoreSession ==
    /\ pc = "store"
    /\ cookieJar' = store_session(sess)
    /\ pc' = "write"
    /\ UNCHANGED <<now, cacheFile, latestJson, latestNew, db, mode, stage,
                   clear_cache, fetcherLocals, results, err, served, cacheBefore,
                   call, conns, inserts, dberr, published, payload, lastFetch>>

\* Line 262 and lines 296-300: the body is returned, written to the cache
\* file, and returned with age 0.  The locals of fetch_api_v3_site are gone.
WriteCache ==
    /\ pc = "write"
    /\ text' = resp.text
    /\ cacheFile' = [exists |-> TRUE, text |-> resp.text, mtime |-> now]
    /\ age' = 0
    /\ pc' = "policy"
    /\ call' = IF stage = "first"
               THEN [call EXCEPT !.age = 0, !.text = resp.text]
               ELSE call
    /\ sess' = {}
    /\ resp' = NoResp /\ resp2' = NoResp /\ resp1' = NoResp
    /\ gets' = <<>>
    /\ lastFetch' = now
    /\ UNCHANGED <<now, cookieJar, latestJson, latestNew, db, mode, stage,
                   clear_cache, parsed, fresh, err, served, cacheBefore, conns,
                   inserts, dberr, published, payload>>

(***************************************************************************)
(* fetch_reasonably_fresh_data, lines 303-313, and main, lines 380-383.    *)
(***************************************************************************)
\* Variant: an age limit of five minutes.
CacheIsFreshEnough_FiveMinutes(p, a) == IsZero(p.currentPower) /\ a < 300

\* Variant: the age limit taken inclusive.
CacheIsFreshEnough_Inclusive(p, a) == IsZero(p.currentPower) /\ a <= FreshLimit

\* Line 308: the cached copy is good enough.
CacheIsFreshEnough(p, a) == IsZero(p.currentPower) /\ a < FreshLimit

\* Lines 382-383: main parses what the cached call gave and prints it.
MainParse ==
    /\ pc = "policy" /\ stage = "main"
    /\ \E lib \in TzLibs :
        LET p == parse_api_v3_js(lib, text)
        IN /\ parsed' = p
           /\ IF p.err # "" THEN Raise(p.err) ELSE pc' = "done" /\ err' = err
    /\ UNCHANGED <<now, files, mode, stage, clear_cache, fetcherLocals,
                   text, age, fresh, served, cacheBefore, call, conns, inserts, dberr, published, payload, lastFetch>>

\* Lines 306-311: the first parse and the decision.
FirstParse ==
    /\ pc = "policy" /\ stage = "first"
    /\ \E lib \in TzLibs :
        LET p == parse_api_v3_js(lib, text)
        IN /\ parsed' = p
           /\ IF p.err # ""
              THEN /\ Raise(p.err)
                   /\ UNCHANGED <<stage, clear_cache, fresh>>
              ELSE IF CacheIsFreshEnough(p, age)
              THEN /\ fresh' = FALSE
                   /\ pc' = "returned"
                   /\ UNCHANGED <<stage, clear_cache, err>>
              ELSE /\ stage' = "second"
                   /\ clear_cache' = TRUE
                   /\ pc' = "cached"
                   /\ UNCHANGED <<fresh, err>>
    /\ UNCHANGED <<now, files, mode, fetcherLocals, text, age, served,
                   cacheBefore, call, conns, inserts, dberr, published, payload, lastFetch>>

\* Lines 312-313: the parse of the forced fetch.
SecondParse ==
    /\ pc = "policy" /\ stage = "second"
    /\ \E lib \in TzLibs :
        LET p == parse_api_v3_js(lib, text)
        IN /\ parsed' = p
           /\ IF p.err # ""
              THEN Raise(p.err) /\ fresh' = fresh
              ELSE fresh' = TRUE /\ pc' = "returned" /\ err' = err
    /\ UNCHANGED <<now, files, mode, stage, clear_cache, fetcherLocals,
                   text, age, served, cacheBefore, call, conns, inserts, dberr, published, payload, lastFetch>>

(***************************************************************************)
(* insert_latest_into_db, lines 316-350.                                   *)
(***************************************************************************)
\* Line 344: lastDayEnergy / 1000.0, kept exact as a fraction.
KWh(v) == [num |-> v.n, den |-> 1000]

\* Lines 340-349: the row the INSERT statement names.
InsertRowOf(p) ==
    [time |-> Strftime(p.lastUpdateTime), location_id |-> LocationId,
     value |-> KWh(p.lastDayEnergy)]

\* The unique constraint of power_kwh on (time, location_id).
Conflicts(rows, row) ==
    \E r \in rows : r.time = row.time /\ r.location_id = row.location_id

\* Lines 329-330: nothing fresh, exit().
InsertExit ==
    /\ pc = "returned" /\ mode = "insert"
    /\ ~fresh
    /\ pc' = "done"
    /\ UNCHANGED <<now, files, mode, stage, clear_cache, fetcherLocals,
                   results, err, served, cacheBefore, call, conns, inserts, dberr, published, payload, lastFetch>>

\* Line 333: psycopg2.connect, which may fail.
InsertConnect ==
    /\ pc = "returned" /\ mode = "insert"
    /\ fresh
    /\ conns' = conns + 1
    /\ \/ pc' = "execute" /\ err' = err
       \/ Raise("OperationalError")
    /\ UNCHANGED <<now, files, mode, stage, clear_cache, fetcherLocals,
                   results, served, cacheBefore, call, inserts, dberr, published, payload, lastFetch>>

\* Variant: a bare except.
Swallowed_Any(e) == TRUE

\* execute_or_ignore, lines 320-326: the exceptions it swallows.
Swallowed(e) == e = "IntegrityError"

\* What the database may answer to the INSERT of row: the unique constraint
\* on (time, location_id) rejects a second row for the same key, and any
\* statement may fail for another reason.
DbAnswers(rows, row) ==
    (IF Conflicts(rows, row) THEN {"IntegrityError"} ELSE {""}) \cup {"OperationalError"}

\* Lines 340-350: the one INSERT, run by execute_or_ignore.
InsertExecute ==
    /\ pc = "execute"
    /\ IF parsed.lastDayEnergy.kind # "num"
       THEN Raise("TypeError") /\ UNCHANGED <<db, inserts, dberr>>
       ELSE LET row == InsertRowOf(parsed)
            IN  /\ inserts' = inserts + 1
                /\ \E e \in DbAnswers(db, row) :
                      /\ dberr' = e
                      /\ db' = IF e = "" THEN db \cup {row} ELSE db
                      /\ IF e = "" \/ Swallowed(e)
                         THEN pc' = "done" /\ err' = err
                         ELSE Raise(e)
    /\ UNCHANGED <<now, cookieJar, cacheFile, latestJson, latestNew, mode,
                   stage, clear_cache, fetcherLocals, results, served,
                   cacheBefore, call, conns, published, payload, lastFetch>>

(***************************************************************************)
(* fetch_and_publish, lines 353-375.                                       *)
(***************************************************************************)
\* Variant: the two energies change places.
Snapshot_Swapped(p) ==
    [exists |-> TRUE, inst_solar_pwr |-> p.currentPower,
     solar_act |-> p.lastDayEnergy, solar_act_day |-> p.lifeTimeEnergy,
     last_update |-> dt_unixtime(p.lastUpdateTime)]

\* Lines 359-364: the object written to latest.json.new.
Snapshot(p) ==
    [exists |-> TRUE, inst_solar_pwr |-> p.currentPower,
     solar_act |-> p.lifeTimeEnergy, solar_act_day |-> p.lastDayEnergy,
     last_update |-> dt_unixtime(p.lastUpdateTime)]

\* Lines 356-364.
PublishWrite ==
    /\ pc = "returned" /\ mode = "publish"
    /\ fresh
    /\ latestNew' = Snapshot(parsed)
    /\ pc' = "rename"
    /\ UNCHANGED <<now, cookieJar, cacheFile, latestJson, db, mode, stage,
                   clear_cache, fetcherLocals, results, err, served, cacheBefore,
                   call, conns, inserts, dberr, published, payload, lastFetch>>

\* Line 365: os.rename.
PublishRename ==
    /\ pc = "rename"
    /\ latestJson' = latestNew
    /\ latestNew' = NoSnap
    /\ published' = parsed
    /\ pc' = "sleep"
    /\ UNCHANGED <<now, cookieJar, cacheFile, db, mode, stage,
                   clear_cache, fetcherLocals, results, err, served, cacheBefore,
                   call, conns, inserts, dberr, payload, lastFetch>>

\* Lines 374-375, then the next turn of the loop at line 355.
Sleep ==
    /\ \/ pc = "sleep"
       \/ pc = "returned" /\ mode = "publish" /\ ~fresh
    /\ now + SleepSeconds <= MaxNow
    /\ now' = now + SleepSeconds
    /\ pc' = "cached"
    /\ stage' = "first"
    /\ clear_cache' = FALSE
    /\ sess' = {}
    /\ resp' = NoResp /\ resp2' = NoResp /\ resp1' = NoResp
    /\ gets' = <<>>
    /\ text' = <<>> /\ age' = 0 /\ parsed' = NoParsed /\ fresh' = FALSE
    /\ served' = "" /\ cacheBefore' = NoFile /\ call' = NoCall
    /\ UNCHANGED <<files, mode, err, conns, inserts, dberr, published, payload, lastFetch>>

\* The publish loop ends only by the process being terminated.
Terminate ==
    /\ mode = "publish"
    /\ \/ pc = "sleep"
       \/ pc = "returned" /\ ~fresh
    /\ pc' = "done"
    /\ UNCHANGED <<now, files, mode, stage, clear_cache, fetcherLocals,
                   results, err, served, cacheBefore, call, conns, inserts, dberr, published, payload, lastFetch>>

Next ==
    \/ \E m \in Modes : Start(m)
    \/ Tick
    \/ Exit
    \/ ReadCache
    \/ BeginFetch
    \/ SeedCookies
    \/ Get1
    \/ Get2
    \/ StoreSession
    \/ WriteCache
    \/ MainParse
    \/ FirstParse
    \/ SecondParse
    \/ InsertExit
    \/ InsertConnect
    \/ InsertExecute
    \/ PublishWrite
    \/ PublishRename
    \/ Sleep
    \/ Terminate

Spec == Init /\ [][Next]_vars

(***************************************************************************)
(* parse_api_v3_js on its own: a payload is drawn and parsed.              *)
(***************************************************************************)
ParserInit ==
    /\ payload \in ParserPayloads
    /\ text = PayloadText(payload)
    /\ pc = "parse"
    /\ mode = "parser"
    /\ now = 0
    /\ cookieJar = NoJar
    /\ cacheFile = NoFile
    /\ latestJson = NoSnap
    /\ latestNew = NoSnap
    /\ db = {}
    /\ stage = ""
    /\ clear_cache = FALSE
    /\ sess = {}
    /\ resp = NoResp
    /\ resp2 = NoResp
    /\ age = 0
    /\ parsed = NoParsed
    /\ fresh = FALSE
    /\ err = ""
    /\ resp1 = NoResp
    /\ gets = <<>>
    /\ served = ""
    /\ cacheBefore = NoFile
    /\ call = NoCall
    /\ conns = 0
    /\ inserts = 0
    /\ dberr = ""
    /\ published = NoParsed
    /\ lastFetch = -1

\* Lines 214-228, with either timezone library; stage keeps which one the
\* installation had.
ParsePayload ==
    /\ pc = "parse"
    /\ \E lib \in TzLibs :
          /\ parsed' = parse_api_v3_js(lib, text)
          /\ stage' = lib
    /\ err' = parsed'.err
    /\ pc' = "parsed"
    /\ UNCHANGED <<now, files, mode, clear_cache, fetcherLocals, text, age,
                   fresh, served, cacheBefore, call, conns, inserts, dberr,
                   published, payload, lastFetch>>

ParserNext == ParsePayload

ParserSpec == ParserInit /\ [][ParserNext]_vars

(***************************************************************************)
(* Properties of the fetcher.                                              *)
(***************************************************************************)
\* The validity check of the specification, applied to a response's own
\* status and body.
Rejected(r) == r.status # 200 \/ ~Contains(r.text, "currentPower")

\* The retry has been answered and fetch_api_v3_site has not yet returned.
AfterRetry == pc \in {"store", "write", "failed"} /\ resp2 # NoResp

\* C1: when the first GET is rejected and the retry passes the check on its
\* own status and body, the fetcher succeeds and returns the retry's body; it
\* raises only when the retry itself is rejected.
C1_RetryDecidesOutcome ==
    (AfterRetry /\ Rejected(resp1)) =>
        IF Rejected(resp2)
        THEN pc = "failed"
        ELSE pc # "failed" /\ resp.text = resp2.text

\* C2: every body the fetcher returns comes from a response with status 200
\* whose own body contains 'currentPower', and when both responses are
\* rejected the fetcher raises and returns nothing.
C2_ReturnedBodyIsValid ==
    /\ pc = "write" => (resp.status = 200 /\ Contains(resp.text, "currentPower"))
    /\ (AfterRetry /\ Rejected(resp1) /\ Rejected(resp2)) => pc = "failed"

\* C3: a fetcher invocation issues at most two GETs; the second is issued
\* only after the first response was rejected, and it carries exactly the
\* configured cookies, whatever the session held and the first answer set.
C3_AtMostTwoGets ==
    /\ Len(gets) <= 2
    /\ call.gets <= 2 * call.fetches
    /\ Len(gets) = 2 =>
          /\ Rejected(resp1)
          /\ gets[2] = ConfCookies
    /\ pc = "get2" => (Len(gets) = 1 /\ Rejected(resp1) /\ sess = ConfCookies)

\* The retry went out after a first GET that carried a restored session with
\* a cookie the configuration does not have.
C3_Witness ==
    /\ Len(gets) = 2
    /\ <<"JSESSIONID", "s1">> \in gets[1]
    /\ gets[2] = ConfCookies

\* C4: when the fetcher is about to return a body, from the first or from
\* the second attempt, cookies.json holds the session's current cookies.
C4_JarStoredBeforeReturn ==
    pc = "write" => (cookieJar.exists /\ json_load(cookieJar.text).dict = sess)

\* The body of an accepted retry is about to be returned, and the session
\* holds a cookie that answer set.
C4_Witness ==
    /\ pc = "write"
    /\ Len(gets) = 2
    /\ <<"JSESSIONID", "s1">> \in sess
    /\ json_load(cookieJar.text).dict = sess

(***************************************************************************)
(* Properties of the response cache and the freshness policy.              *)
(***************************************************************************)
\* The readings either installation parses from a text.
Readings(t) == {parse_api_v3_js(lib, t) : lib \in TzLibs}

\* C5: fetch_reasonably_fresh_data on a readable, parseable cache.  With a
\* cached currentPower of 0 and an age under 900 seconds it issues no HTTP
\* request and returns the cached reading; in every other case, age exactly
\* 900 included, it fetches and returns the parse of the fetched body.
C5_FreshnessPolicy ==
    (pc = "returned" /\ call.served = "cache") =>
        \E cached \in Readings(call.text) :
            /\ cached.err = ""
            /\ IF IsZero(cached.currentPower) /\ call.age < 900
               THEN /\ call.gets = 0 /\ call.fetches = 0
                    /\ parsed = cached
                    /\ text = call.text
               ELSE /\ call.fetches = 1 /\ call.gets >= 1
                    /\ served = "fetch"
                    /\ cacheFile.text = text /\ cacheFile.mtime = now
                    /\ parsed \in Readings(text)

\* A cached reading of power 0 aged exactly 900 seconds made the policy
\* fetch, and the fetched body differs from the cached one.
C5_Witness ==
    /\ pc = "returned"
    /\ call.served = "cache"
    /\ call.age = 900
    /\ \E cached \in Readings(call.text) : cached.err = "" /\ IsZero(cached.currentPower)
    /\ call.fetches = 1
    /\ text # call.text

\* C6: the reading is reported fresh exactly when a live fetch made during
\* this call produced it, from every starting state of the cache file.
C6_FreshIffLiveFetch ==
    pc = "returned" => (fresh <=> call.fetches > 0)

\* C7: a forced call does not read the cache file and always fetches; after
\* a fetch the cache file holds the returned text and the age is 0; a call
\* served from the cache returns the file's content and leaves the file alone.
C7_ResponseCache ==
    pc = "policy" =>
        /\ clear_cache => served = "fetch"
        /\ served \in {"fetch", "cache"}
        /\ served = "fetch" =>
              /\ call.fetches >= 1
              /\ cacheFile.exists /\ cacheFile.text = text /\ cacheFile.mtime = now
              /\ age = 0
        /\ served = "cache" =>
              /\ text = cacheFile.text
              /\ cacheFile = cacheBefore
              /\ age = now - cacheFile.mtime

\* A forced call has replaced a readable cache file of another content.
C7_Witness ==
    /\ pc = "policy"
    /\ clear_cache
    /\ served = "fetch"
    /\ cacheBefore.exists /\ ~BrokenCache(cacheBefore.text)
    /\ cacheBefore.text # text
    /\ cacheFile.text = text

\* The content of a cache file that is not a JSON object: its first
\* character after the leading whitespace is not '{', or there is none.
Corrupt(t) == LStrip(t) = <<>> \/ Head(LStrip(t)) # "{"

\* C8: a non-forced read of an existing corrupt cache file, an empty or
\* blank one included, goes on to a live fetch without raising an error of
\* its own, and the fetched body replaces the file.
C8_CorruptCacheHeals ==
    (pc \notin {"idle", "cached"} /\ ~clear_cache
        /\ cacheBefore.exists /\ Corrupt(cacheBefore.text)) =>
            /\ served = "fetch"
            /\ pc = "policy" => cacheFile.text = text

(***************************************************************************)
(* Properties of the publish loop and of the inserter.                     *)
(***************************************************************************)
\* The object fetch_and_publish serializes for a reading.
IsSnapshotOf(f, p) ==
    /\ f.exists
    /\ f.inst_solar_pwr = p.currentPower
    /\ f.solar_act = p.lifeTimeEnergy
    /\ f.solar_act_day = p.lastDayEnergy
    /\ f.last_update = p.lastUpdateTime

\* C9: latest.json is absent or holds the complete snapshot of a reading
\* that was reported fresh; it changes only by the rename of the fully
\* written latest.json.new, in a cycle whose reading is fresh; and a new
\* cycle of the loop starts only after a sleep of 400 seconds.
C9_PublishLoop ==
    /\ [](latestJson.exists =>
            (published.err = "" /\ IsSnapshotOf(latestJson, published)))
    /\ [][/\ latestJson' # latestJson =>
                /\ mode = "publish" /\ pc = "rename" /\ fresh
                /\ parsed.err = "" /\ IsSnapshotOf(latestNew, parsed)
                /\ latestJson' = latestNew /\ published' = parsed
          /\ (mode = "publish" /\ pc = "returned" /\ ~fresh) =>
                (latestJson' = latestJson /\ latestNew' = latestNew)
          /\ (pc # "idle" /\ pc' = "cached" /\ stage' = "first") =>
                (mode = "publish" /\ now' = now + 400)
         ]_vars

\* A second snapshot has replaced the first, and the loop is in a later cycle.
C9_Witness ==
    /\ mode = "publish"
    /\ pc = "sleep"
    /\ now >= 400
    /\ \E p \in Readings(BodyDay) : IsSnapshotOf(latestJson, p)
    /\ cacheFile.text = BodyDay /\ cacheFile.mtime = now

\* The row insert_latest_into_db inserts for a reading: its UTC time to the
\* second, location 15, lastDayEnergy / 1000.
RowFor(p) ==
    [time |-> Strftime(p.lastUpdateTime), location_id |-> 15,
     value |-> [num |-> p.lastDayEnergy.n, den |-> 1000]]

C11_CookieJarRoundTrip ==
    [][/\ pc = "store" =>
            /\ cookieJar'.exists
            /\ ~RestoreFails(cookieJar')
            /\ restore_session(cookieJar') = sess
       /\ pc = "fetch" =>
            /\ pc' = "seed"
            /\ sess' = restore_session(cookieJar)
            /\ ~cookieJar.exists => sess' = {}
       /\ cookieJar' # cookieJar => pc = "store"
      ]_vars

\* A later invocation has restored a session of two cookies, one of them
\* set by the server in an earlier invocation.
C11_Witness ==
    /\ pc = "seed"
    /\ Cardinality(sess) = 2
    /\ <<"JSESSIONID", "s1">> \in sess
    /\ cookieJar = store_session(sess)

\* The mapping cookies.json holds, none when the file is absent.
Persisted(file) == IF file.exists THEN json_load(file.text).dict ELSE {}

\* C15: the first GET of a fetcher invocation carries exactly the configured
\* cookies when cookies.json is absent or holds an empty mapping, and exactly
\* the persisted cookies when it holds a non-empty mapping.
C15_SessionSeeding ==
    (pc \in {"get1", "get2", "store", "failed"} /\ (pc = "get1" \/ Len(gets) >= 1)) =>
        LET first == IF pc = "get1" THEN sess ELSE gets[1]
        IN  IF Persisted(cookieJar) = {}
            THEN first = ConfCookies
            ELSE first = Persisted(cookieJar)

\* The first GET went out with the persisted cookies, which are not the
\* configured ones, and was rejected.
C15_Witness ==
    /\ pc = "get2"
    /\ Len(gets) = 1
    /\ Persisted(cookieJar) # {}
    /\ gets[1] = Persisted(cookieJar)
    /\ gets[1] # ConfCookies

\* The first GET went out with the configured cookies because cookies.json
\* held an empty mapping.
C15_WitnessEmptyJar ==
    /\ pc = "get2"
    /\ cookieJar.exists
    /\ Persisted(cookieJar) = {}
    /\ gets[1] = ConfCookies

(***************************************************************************)
(* Properties of the parser.                                               *)
(***************************************************************************)
\* The length of a lastUpdateTime up to its first '.'.
TruncatedLen(ts) ==
    LET i == IndexOf(ts, ".") IN IF i = 0 THEN Len(ts) ELSE i - 1

\* C12: a payload whose unit is not "W", and a payload whose lastUpdateTime
\* cut at its first '.' is not 19 characters long, fails to parse: an
\* exception is raised and no reading, whole or partial, is returned.
C12_ParserRejects ==
    (pc = "parsed" /\
        (payload.unit # <<"W">> \/ TruncatedLen(StampText(payload)) # 19)) =>
            /\ parsed.err # ""
            /\ parsed = ParseError(parsed.err)
            /\ err = parsed.err

\* A payload in kW, sound in every other respect, was refused.
C12_Witness ==
    /\ pc = "parsed"
    /\ payload.unit = <<"k", "W">>
    /\ payload.shape = "frac"
    /\ payload.power = 306
    /\ parsed.err = "AssertionError"

\* A payload in W whose timestamp has 20 characters before the '.' was
\* refused.
C12_WitnessLength ==
    /\ pc = "parsed"
    /\ payload.unit = <<"W">>
    /\ payload.shape = "long"
    /\ parsed.err = "AssertionError"

\* A payload of the documented shape, in W, whose local time exists.
ValidPayload(p) ==
    /\ p.shape \in {"frac", "plain"}
    /\ p.unit = <<"W">>
    /\ ~IsNonExistent(p.dt)

\* C13: a valid payload parses to its three numbers unchanged and to the UTC
\* instant of its Europe/Amsterdam local time: one hour earlier in winter
\* time, two hours earlier in summer time, and one hour earlier for a local
\* time in the repeated hour of the change back to winter time.
C13_ParserResult ==
    (pc = "parsed" /\ ValidPayload(payload)) =>
        /\ parsed.err = ""
        /\ parsed.lifeTimeEnergy = NumVal(payload.life)
        /\ parsed.lastDayEnergy = NumVal(payload.day)
        /\ parsed.currentPower = NumVal(payload.power)
        /\ parsed.lastUpdateTime =
              NaiveSeconds(payload.dt) - (IF IsSummer(payload.dt) THEN 7200 ELSE 3600)

(***************************************************************************)
(* Properties of whole runs.                                               *)
(***************************************************************************)
\* The running process has fetched before, and what it fetched, still in
\* the cache file, reads as a currentPower of 0.
FetchedZeroBefore ==
    /\ lastFetch >= 0
    /\ cacheFile.exists /\ cacheFile.mtime = lastFetch
    /\ \E p \in Readings(cacheFile.text) : p.err = "" /\ IsZero(p.currentPower)

\* C14: in the publish loop, a live fetch that follows a live fetch whose
\* reading had currentPower 0 is made at least 900 seconds after it.
C14_LoopThrottle ==
    (mode = "publish" /\ pc \in {"seed", "get1", "get2", "store", "write"}
        /\ FetchedZeroBefore) =>
            now - lastFetch >= 900

\* The loop fetches again, three cycles and 1200 seconds after a fetch that
\* read a currentPower of 0.
C14_Witness ==
    /\ mode = "publish"
    /\ pc = "get1"
    /\ FetchedZeroBefore
    /\ lastFetch = 0
    /\ now = 1200

\* The cached text the running call began with reads as a currentPower of 0.
CachedZero ==
    \E p \in Readings(call.text) : p.err = "" /\ IsZero(p.currentPower)

\* C16, as claimed: in insert mode a cached reading of power 0 suppresses the
\* live fetch exactly while the cache is younger than 300 seconds.
C16_InsertFiveMinutes ==
    (mode = "insert" /\ pc = "returned" /\ call.served = "cache" /\ CachedZero) =>
        (call.fetches = 0 <=> call.age < 300)

\* C16, amended: insert mode has the threshold of the loop.  A cached reading
\* of power 0 younger than 900 seconds suppresses the live fetch, and with it
\* the connection and the insert; in every other case the cached call is
\* followed by one live fetch, the reading is fresh, and a run that ends
\* normally has attempted one insert.
C16_InsertSameThreshold ==
    (mode = "insert" /\ pc \in {"returned", "execute", "done"}
        /\ call.served = "cache") =>
            IF CachedZero /\ call.age < 900
            THEN call.fetches = 0 /\ ~fresh /\ conns = 0 /\ inserts = 0
            ELSE /\ call.fetches = 1 /\ fresh
                 /\ pc = "execute" => conns = 1
                 /\ pc = "done" => (conns = 1 /\ inserts = 1)

\* Insert mode has ended without a fetch or an insert on a zero-power cache
\* aged between five and fifteen minutes.
C16_Witness ==
    /\ mode = "insert"
    /\ pc = "done"
    /\ call.served = "cache"
    /\ CachedZero
    /\ call.age >= 300 /\ call.age < 900
    /\ call.fetches = 0 /\ inserts = 0

\* Insert mode has fetched and inserted on a zero-power cache aged exactly
\* fifteen minutes.
C16_WitnessFifteen ==
    /\ mode = "insert"
    /\ pc = "done"
    /\ call.served = "cache"
    /\ CachedZero
    /\ call.age = 900
    /\ call.fetches = 1 /\ inserts = 1

\* Cache contents that begin with '{' and do not parse: invalid JSON, a
\* missing key, a wrong unit, a bad timestamp.
FailingBodies == {BodyCut, BodyNoData, BodyKw, BodyBadTs}

ParseErrors == {"JSONDecodeError", "KeyError", "AssertionError", "ValueError"}

\* C17: with such a body in the cache file, an invocation of any mode reads
\* it from the cache and dies at the parse, having made no fetch and no GET
\* and with the file as it was; and while the cache file holds such a body
\* no step of any invocation, at any age of the file, changes the cache
\* file, latest.json, latest.json.new, the table or cookies.json.
C17_ParseFailureFatal ==
    /\ []((pc \notin {"idle", "cached"} /\ ~clear_cache
            /\ cacheBefore.exists /\ cacheBefore.text \in FailingBodies) =>
                /\ pc \in {"policy", "failed"}
                /\ served = "cache"
                /\ call.fetches = 0 /\ call.gets = 0 /\ gets = <<>>
                /\ cacheFile = cacheBefore
                /\ conns = 0
                /\ pc = "failed" => err \in ParseErrors)
    /\ [][(cacheFile.exists /\ cacheFile.text \in FailingBodies) =>
              /\ UNCHANGED files
              /\ pc = "policy" => (pc' = "failed" /\ parsed'.err \in ParseErrors)
         ]_vars

\* Insert mode has died at the parse of a cached payload in kW that is
\* older than fifteen minutes, without a fetch.
C17_Witness ==
    /\ mode = "insert"
    /\ pc = "failed"
    /\ err = "AssertionError"
    /\ cacheFile.text = BodyKw
    /\ age >= 1000
    /\ call.fetches = 0

\* C18: a fetcher invocation that raises, its retry refused, leaves
\* cookies.json, the cache file and latest.json with the content they had
\* when it began: no step from its entry to its last GET writes a file, the
\* cache file is still the one the cached call found, and nothing is written
\* after the failure.
C18_FailureLeavesFiles ==
    /\ []((pc = "failed" /\ resp2 # NoResp) =>
            (err = "ValueError" /\ cacheFile = cacheBefore))
    /\ [][(pc \in {"fetch", "seed", "get1", "get2", "failed"}) => UNCHANGED files]_vars

\* A forced fetch has failed with both answers rejected: the session holds
\* the configured cookies and one the retry's answer set, cookies.json still
\* holds the older session, and the readable cache file is as it was.
C18_Witness ==
    /\ pc = "failed"
    /\ stage = "second"
    /\ Rejected(resp1) /\ resp2 # NoResp /\ Rejected(resp2)
    /\ sess = ConfCookies \cup {<<"JSESSIONID", "s1">>}
    /\ Persisted(cookieJar) = {<<"SSO", "old">>}
    /\ cacheFile = cacheBefore
    /\ cacheFile.text = BodyDay

\* C19: one call of fetch_reasonably_fresh_data makes at most two fetcher
\* invocations and at most four GETs; it makes two only when the cache file
\* was absent or corrupt when the call began and the reading first fetched
\* has a currentPower other than 0; so from a readable cache it makes at
\* most one.  The reading first fetched is looked at where the second
\* invocation begins; the call's record of it does not change afterwards.
C19_RequestsPerCycle ==
    /\ call.fetches <= 2
    /\ call.gets <= 4
    /\ call.fetches >= 2 => (~call.before.exists \/ Corrupt(call.before.text))
    /\ (call.fetches >= 2 /\ pc = "seed") =>
          \E p \in Readings(call.text) : p.err = "" /\ p.currentPower # NumVal(0)

\* A call that began without a cache file has fetched twice, with a retry
\* in each invocation.
C19_Witness ==
    /\ pc = "returned"
    /\ fresh
    /\ ~call.before.exists
    /\ call.fetches = 2
    /\ call.gets = 4

\* A call that began with a corrupt cache file has fetched twice.
C19_WitnessCorrupt ==
    /\ pc = "returned"
    /\ call.before.exists /\ call.before.text = BodyLogin
    /\ call.fetches = 2

\* C20: main fetches only when the cache file is absent or corrupt.  With
\* a readable cache file it makes no request, whatever the file's age and
\* the currentPower in it, what it prints is the parse of the file's
\* content, and the cache file and cookies.json stay as they were.
C20_MainNoPolicy ==
    /\ []((mode = "main" /\ pc \notin {"idle", "cached"}) =>
            IF cacheBefore.exists /\ ~Corrupt(cacheBefore.text)
            THEN /\ call.fetches = 0 /\ call.gets = 0
                 /\ pc \in {"policy", "done", "failed"}
                 /\ text = cacheBefore.text
                 /\ age = now - cacheBefore.mtime
                 /\ cacheFile = cacheBefore
                 /\ pc = "done" => (parsed.err = "" /\ parsed \in Readings(cacheBefore.text))
            ELSE call.fetches <= 1)
    /\ [][(mode = "main" /\ served = "cache") => UNCHANGED <<cookieJar, cacheFile>>]_vars

\* main has printed a reading of 306 W from a cache file a thousand
\* seconds old, without a request.
C20_Witness ==
    /\ mode = "main"
    /\ pc = "done"
    /\ age >= 1000
    /\ parsed.currentPower = NumVal(306)
    /\ call.fetches = 0
    /\ cacheFile = cacheBefore

====
